---- MODULE Spec2Model ----
\* Rephrase refactoring of a step (refactor.go): the staged workflow
\* pre-check -> document rewrite -> persistence -> runner coordination,
\* with the file system and the runner process as environment state.
\*
\* Texts (phrases, step names, error messages) are sequences of tokens, so
\* that fmt.Sprintf / strings.Join are concatenations and "contains" is a
\* property of the sequence.
EXTENDS Integers, Sequences, FiniteSets, TLC

\* ------------------------------------------------------------------ bounds
\* Largest number of arguments of a step phrase.
MaxArgs == 2

\* ---------------------------------------------------------- text helpers
\* Parameter tokens a user may write in a phrase.
ParamTokens == {"<a>", "<b>"}
\* Parameter names of the implementation, by position (canonical step name).
ImplParams == <<"<x1>", "<x2>", "<x3>", "<x4>">>
\* Inline argument values of a step occurrence in a document, by position.
InlineValues == <<"v1", "v2", "v3", "v4">>
AllParams == ParamTokens \cup {ImplParams[i] : i \in DOMAIN ImplParams}
               \cup {InlineValues[i] : i \in DOMAIN InlineValues}

\* Argument lists of at most MaxArgs parameter tokens.
ArgLists == UNION {[1..n -> ParamTokens] : n \in 0..MaxArgs}

\* The phrases offered to the refactoring: a literal word, then parameters.
OldPhrases == {<<"p">> \o a : a \in ArgLists}
NewPhrases == {<<w>> \o a : w \in {"p", "q"}, a \in ArgLists}

IsParam(tok) == tok \in AllParams

\* The step a phrase tokenizes to: its args are the parameter tokens in
\* order, its value the text with every parameter replaced by "{}".
createStepUsingLookup(text) ==
    [kind |-> "step",
     value |-> [i \in DOMAIN text |-> IF IsParam(text[i]) THEN "{}" ELSE text[i]],
     args |-> SelectSeq(text, IsParam),
     lineText |-> text,
     isConcept |-> FALSE]

\* extractStepValueAndParams: the runner's view of a step text.
extractStepValueAndParams(text) ==
    [stepValue |-> [i \in DOMAIN text |-> IF IsParam(text[i]) THEN "{}" ELSE text[i]],
     args |-> SelectSeq(text, IsParam)]

NoStep == [kind |-> "step", value |-> <<>>, args |-> <<>>, lineText |-> <<>>,
           isConcept |-> FALSE]

\* ------------------------------------------------------- refactoringResult
NoResult ==
    [success |-> FALSE, specsChanged |-> <<>>, conceptsChanged |-> <<>>,
     runnerFilesChanged |-> <<>>, errors |-> <<>>, warnings |-> <<>>]

\* Mutant: the failure result carries no error text.
rephraseFailure_noErrors(errs) == [NoResult EXCEPT !.success = FALSE]

rephraseFailure(errs) == [NoResult EXCEPT !.success = FALSE, !.errors = errs]

\* Mutant: the warnings replace the ones already held.
appendWarnings_replaces(res, warnings) == [res EXCEPT !.warnings = warnings]

appendWarnings(res, warnings) ==
    [res EXCEPT !.warnings = res.warnings \o warnings]

\* Mutant: a failed parse result adds its error but leaves success alone.
RECURSIVE addErrors_keepsSuccess(_, _)
addErrors_keepsSuccess(res, parseResults) ==
    IF parseResults = <<>> THEN res
    ELSE LET pr == Head(parseResults)
             r1 == IF ~pr.ok
                   THEN [res EXCEPT !.errors = Append(res.errors, pr.error)]
                   ELSE res
         IN addErrors_keepsSuccess(appendWarnings(r1, pr.warnings),
                                   Tail(parseResults))

RECURSIVE addErrorsAndWarningsToRefactoringResult(_, _)
addErrorsAndWarningsToRefactoringResult(res, parseResults) ==
    IF parseResults = <<>> THEN res
    ELSE LET pr == Head(parseResults)
             r1 == IF ~pr.ok
                   THEN [res EXCEPT !.success = FALSE,
                                    !.errors = Append(res.errors, pr.error)]
                   ELSE res
         IN addErrorsAndWarningsToRefactoringResult(
                appendWarnings(r1, pr.warnings), Tail(parseResults))

\* ------------------------------------------------------ Argument order map
RECURSIVE SliceIndexLoop(_, _, _)
SliceIndexLoop(i, limit, predicate) ==
    IF i < limit
    THEN IF predicate[i] THEN i ELSE SliceIndexLoop(i + 1, limit, predicate)
    ELSE -1

\* Mutant: the search runs from the last index down, so the last match wins.
RECURSIVE SliceIndexDown(_, _)
SliceIndexDown(i, predicate) ==
    IF i < 0 THEN -1
    ELSE IF predicate[i] THEN i ELSE SliceIndexDown(i - 1, predicate)
SliceIndex_lastMatch(limit, predicate) == SliceIndexDown(limit - 1, predicate)

SliceIndex(limit, predicate) == SliceIndexLoop(0, limit, predicate)

\* Maps are 0-based like the Go slices they index; args are TLA+ sequences.
createOrderOfArgs(oldArgs, newArgs) ==
    [i \in 0..(Len(newArgs) - 1) |->
        SliceIndex(Len(oldArgs),
                   [j \in 0..(Len(oldArgs) - 1) |-> oldArgs[j + 1] = newArgs[i + 1]])]

\* Mutant: positions without an old argument are left out of the list.
createParameterPositions_noSentinel(orderMap, keyOrder) ==
    SelectSeq([n \in DOMAIN keyOrder |->
                  [newPosition |-> keyOrder[n], oldPosition |-> orderMap[keyOrder[n]]]],
              LAMBDA pos : pos.oldPosition # -1)

\* Go iterates a map in an unspecified order: keyOrder is that order.
createParameterPositions(orderMap, keyOrder) ==
    [n \in DOMAIN keyOrder |->
        [newPosition |-> keyOrder[n], oldPosition |-> orderMap[keyOrder[n]]]]

\* The orders in which the keys of a map can be visited.
KeyOrders(m) ==
    {o \in [1..Cardinality(DOMAIN m) -> DOMAIN m] :
        \A a, b \in DOMAIN o : a # b => o[a] # o[b]}

\* ---------------------------------------------------------- text messages
\* strings.Join over texts.
\* Mutant: only the first text is kept.
Join_firstOnly(texts, sep) == IF texts = <<>> THEN <<>> ELSE Head(texts)

RECURSIVE Join(_, _)
Join(texts, sep) ==
    IF texts = <<>> THEN <<>>
    ELSE IF Len(texts) = 1 THEN Head(texts)
    ELSE Head(texts) \o <<sep>> \o Join(Tail(texts), sep)

SameNameMessage == <<"Same old step name and new step name.">>
ConnectPrefix == <<"Failed to connect to test runner: ">>
OnlyDocsPrefix == <<"Only spec files and concepts refactored: ">>
NotFoundPrefix == <<"Step implementation not found: ">>
AliasPrefix == <<"steps with aliases : '">>
AliasSuffix == <<"' cannot be refactored.">>
AliasSeparator == "', '"

\* ------------------------------------------------------ Document rewriter
\* The arguments of a renamed occurrence: new position i takes the inline
\* argument of the mapped old position, or the new step's own argument.
getArgsInOrder(step, newStep, orderMap) ==
    [i \in 1..Len(newStep.args) |->
        IF orderMap[i - 1] = -1 THEN newStep.args[i]
        ELSE step.args[orderMap[i - 1] + 1]]

\* step.rename: [step, renamed, isConcept] after renaming one occurrence.
rename(step, oldStep, newStep, isRefactored, orderMap, isConcept) ==
    IF step.value # oldStep.value
    THEN [step |-> step, renamed |-> isRefactored, isConcept |-> isConcept]
    ELSE [step |-> [step EXCEPT !.value = newStep.value,
                                !.args = getArgsInOrder(step, newStep, orderMap)],
          renamed |-> TRUE,
          isConcept |-> isConcept \/ step.isConcept]

\* specification.renameSteps: every step of the document, in order.
RECURSIVE renameStepsFrom(_, _, _, _, _, _)
renameStepsFrom(items, n, oldStep, newStep, orderMap, isRefactored) ==
    IF n > Len(items) THEN [items |-> items, renamed |-> isRefactored]
    ELSE IF items[n].kind # "step"
    THEN renameStepsFrom(items, n + 1, oldStep, newStep, orderMap, isRefactored)
    ELSE LET r == rename(items[n], oldStep, newStep, isRefactored, orderMap, FALSE)
         IN renameStepsFrom([items EXCEPT ![n] = r.step], n + 1, oldStep, newStep,
                            orderMap, r.renamed)

renameSteps(spec, oldStep, newStep, orderMap) ==
    LET r == renameStepsFrom(spec.items, 1, oldStep, newStep, orderMap, FALSE)
    IN [spec |-> [spec EXCEPT !.items = r.items], renamed |-> r.renamed]

\* Mutant: every item is renamed with a fresh isConcept, as renameSteps does.
RECURSIVE conceptItemsLoop_freshIsConcept(_, _, _, _, _, _, _)
conceptItemsLoop_freshIsConcept(items, n, oldStep, newStep, orderMap, flag, isConcept) ==
    IF n > Len(items)
    THEN [items |-> items, flag |-> flag, isConcept |-> isConcept]
    ELSE LET isRefactored == flag
             isStep == items[n].kind = "step"
             r == rename(items[n], oldStep, newStep, isRefactored, orderMap, FALSE)
         IN IF isStep
            THEN conceptItemsLoop_freshIsConcept([items EXCEPT ![n] = r.step], n + 1,
                                                 oldStep, newStep, orderMap,
                                                 r.renamed \/ isRefactored, isConcept)
            ELSE conceptItemsLoop_freshIsConcept(items, n + 1, oldStep, newStep,
                                                 orderMap, isRefactored, isConcept)

\* Mutant: once the file is flagged, no further item is renamed.
RECURSIVE conceptItemsLoop_stopsOnceFlagged(_, _, _, _, _, _, _)
conceptItemsLoop_stopsOnceFlagged(items, n, oldStep, newStep, orderMap, flag, isConcept) ==
    IF n > Len(items)
    THEN [items |-> items, flag |-> flag, isConcept |-> isConcept]
    ELSE LET isRefactored == flag
             isStep == items[n].kind = "step"
             r == rename(items[n], oldStep, newStep, isRefactored, orderMap, isConcept)
         IN IF ~isRefactored /\ isStep
            THEN conceptItemsLoop_stopsOnceFlagged([items EXCEPT ![n] = r.step], n + 1,
                                                   oldStep, newStep, orderMap,
                                                   r.renamed, r.isConcept)
            ELSE conceptItemsLoop_stopsOnceFlagged(items, n + 1, oldStep, newStep,
                                                   orderMap, isRefactored, isConcept)

\* The inner loop over the items of one concept (refactor.go 112-117):
\* [items, flag, isConcept] after item n and its successors.
RECURSIVE conceptItemsLoop(_, _, _, _, _, _, _)
conceptItemsLoop(items, n, oldStep, newStep, orderMap, flag, isConcept) ==
    IF n > Len(items)
    THEN [items |-> items, flag |-> flag, isConcept |-> isConcept]
    ELSE LET isRefactored == flag
             isStep == items[n].kind = "step"
             r == rename(items[n], oldStep, newStep, isRefactored, orderMap, isConcept)
         IN IF isStep
            THEN conceptItemsLoop([items EXCEPT ![n] = r.step], n + 1, oldStep,
                                  newStep, orderMap, r.renamed \/ isRefactored,
                                  r.isConcept)
            ELSE conceptItemsLoop(items, n + 1, oldStep, newStep, orderMap,
                                  isRefactored, isConcept)

\* ------------------------------------------------------------- documents
Comment == [kind |-> "comment", value |-> <<>>, args |-> <<>>,
            lineText |-> <<"note">>, isConcept |-> FALSE]
OtherStep == [kind |-> "step", value |-> <<"other">>, args |-> <<>>,
              lineText |-> <<"other">>, isConcept |-> FALSE]
\* An occurrence of the old step, with inline argument values.
UseOf(oldStep) ==
    [kind |-> "step", value |-> oldStep.value,
     args |-> [j \in 1..Len(oldStep.args) |-> InlineValues[j]],
     lineText |-> oldStep.lineText, isConcept |-> FALSE]
\* A comment that quotes the old step: same text, not a step.
Quote(oldStep) ==
    [kind |-> "comment", value |-> oldStep.value, args |-> <<>>,
     lineText |-> oldStep.lineText, isConcept |-> FALSE]
\* A concept header: the concept's own defining step.
HeaderOf(oldStep) == [oldStep EXCEPT !.isConcept = TRUE]
OtherHeader == [OtherStep EXCEPT !.value = <<"concept">>, !.isConcept = TRUE]

\* What findSpecs can return: the parsed specifications of the project.
SpecCorpora(oldStep) ==
    { <<>>,
      << [fileName |-> "s1.spec", items |-> <<OtherStep, UseOf(oldStep)>>],
         [fileName |-> "s2.spec", items |-> <<Comment, OtherStep>>] >>,
      << [fileName |-> "s1.spec", items |-> <<UseOf(oldStep)>>],
         [fileName |-> "s2.spec", items |-> <<UseOf(oldStep), Comment, UseOf(oldStep)>>] >> }

\* What createConceptsDictionary can return: concept key -> concept.
Concept(file, items) == [fileName |-> file, conceptStep |-> [items |-> items]]
ConceptCorpora(oldStep) ==
    { [k \in {} |-> Concept("", <<>>)],
      [k \in {"c1", "c2"} |->
          IF k = "c1" THEN Concept("a.cpt", <<HeaderOf(oldStep), OtherStep>>)
          ELSE Concept("a.cpt", <<OtherHeader, Comment, OtherStep>>)],
      [k \in {"c1", "c2"} |->
          IF k = "c1" THEN Concept("a.cpt", <<OtherHeader, Quote(oldStep), OtherStep>>)
          ELSE Concept("b.cpt", <<OtherHeader, UseOf(oldStep), Comment,
                                  UseOf(oldStep)>>)],
      [k \in {"c1", "c2"} |->
          IF k = "c1" THEN Concept("a.cpt", <<HeaderOf(oldStep), OtherStep>>)
          ELSE Concept("b.cpt", <<OtherHeader, UseOf(oldStep)>>)] }

\* Parse results of the pre-check: ok flag, error, warnings.
ParseOk == [ok |-> TRUE, error |-> <<>>, warnings |-> <<>>]
ParseWarn(w) == [ok |-> TRUE, error |-> <<>>, warnings |-> <<<<w>>>>]
ParseFail(e, w) == [ok |-> FALSE, error |-> <<e>>, warnings |-> <<<<w>>>>]

\* ------------------------------------------------------------ the runner
\* A round trip (getResponseForMessageWithTimeout) ends with a response or
\* with a transport error (a timeout, a broken connection).
Timeout == <<"request timed out">>
Delivered(resp) == [ok |-> TRUE, err |-> <<>>, response |-> resp]
TransportFailed(resp) == [ok |-> FALSE, err |-> Timeout, response |-> resp]

\* The canonical name of the implementation of oldStep, with n parameters.
CanonicalName(oldStep, n) ==
    <<oldStep.lineText[1]>> \o [j \in 1..n |-> ImplParams[j]]

StepNameResponse(present, alias, names) ==
    [isStepPresent |-> present, hasAlias |-> alias, stepName |-> names]
NoStepNameResponse == StepNameResponse(FALSE, FALSE, <<>>)

\* The StepName responses a runner can give for oldStep.
StepNameResponses(oldStep) ==
    LET n == Len(oldStep.args)
    IN { NoStepNameResponse,
         StepNameResponse(TRUE, TRUE, <<<<"stepA">>, <<"stepB">>>>),
         StepNameResponse(TRUE, FALSE, <<>>),
         StepNameResponse(TRUE, FALSE, <<CanonicalName(oldStep, n)>>) }
       \cup (IF n > 0
             THEN {StepNameResponse(TRUE, FALSE, <<CanonicalName(oldStep, n - 1)>>)}
             ELSE {})

RefactorResponse(success, error, files) ==
    [success |-> success, error |-> error, filesChanged |-> files]
NoRefactorResponse == RefactorResponse(FALSE, <<>>, <<>>)

\* The Refactor responses a runner can give; a response without a
\* RefactorResponse reads as success=false with an empty error.
RefactorResponses ==
    { RefactorResponse(TRUE, <<>>, <<"impl.go">>),
      RefactorResponse(FALSE, <<>>, <<>>),
      RefactorResponse(FALSE, <<"cannot rename">>, <<"impl.go">>) }

\* Mutant: the hasAlias check is missing.
getStepNameFromRunner_ignoresAlias(oldStep, trip) ==
    IF ~trip.ok
    THEN [panic |-> FALSE, err |-> trip.err, stepName |-> <<>>]
    ELSE IF ~trip.response.isStepPresent
    THEN [panic |-> FALSE, err |-> NotFoundPrefix \o oldStep.lineText,
          stepName |-> <<>>]
    ELSE IF Len(trip.response.stepName) = 0
    THEN [panic |-> TRUE, err |-> <<>>, stepName |-> <<>>]
    ELSE [panic |-> FALSE, err |-> <<>>, stepName |-> trip.response.stepName[1]]

\* getStepNameFromRunner after the round trip: [panic, err, stepName].
getStepNameFromRunner(oldStep, trip) ==
    IF ~trip.ok
    THEN [panic |-> FALSE, err |-> trip.err, stepName |-> <<>>]
    ELSE IF ~trip.response.isStepPresent
    THEN [panic |-> FALSE, err |-> NotFoundPrefix \o oldStep.lineText,
          stepName |-> <<>>]
    ELSE IF trip.response.hasAlias
    THEN [panic |-> FALSE,
          err |-> AliasPrefix \o Join(trip.response.stepName, AliasSeparator)
                     \o AliasSuffix,
          stepName |-> <<>>]
    ELSE IF Len(trip.response.stepName) = 0
    THEN [panic |-> TRUE, err |-> <<>>, stepName |-> <<>>]
    ELSE [panic |-> FALSE, err |-> <<>>, stepName |-> trip.response.stepName[1]]

\* Mutant: the synthetic response does not carry the transport error.
sendRefactorRequest_dropsError(trip) ==
    IF ~trip.ok THEN RefactorResponse(FALSE, <<>>, <<>>)
    ELSE trip.response

\* sendRefactorRequest after the round trip: the response, or a synthetic
\* failed response carrying the transport error.
sendRefactorRequest(trip) ==
    IF ~trip.ok THEN RefactorResponse(FALSE, trip.err, <<>>)
    ELSE trip.response

\* The index, among the parameters of text, of the parameter at position i.
ParamIndex(text, i) == Cardinality({j \in 1..(i - 1) : IsParam(text[j])})

\* Mutant: the k-th parameter fragment takes the k-th argument, whatever
\* the order map says.
generateNewStepName_byPosition(newStep, args, orderMap) ==
    LET text == newStep.lineText
    IN [panic |-> FALSE,
        text |-> [i \in DOMAIN text |->
                    IF /\ IsParam(text[i])
                       /\ orderMap[ParamIndex(text, i)] # -1
                       /\ ParamIndex(text, i) < Len(args)
                    THEN args[ParamIndex(text, i) + 1]
                    ELSE text[i]]]

\* generateNewStepName: [panic, text]. The fragments of the new step are
\* its tokens; a parameter fragment takes args[orderMap[paramIndex]].
generateNewStepName(newStep, args, orderMap) ==
    LET text == newStep.lineText
        bad == \E i \in DOMAIN text :
                  /\ IsParam(text[i])
                  /\ orderMap[ParamIndex(text, i)] # -1
                  /\ orderMap[ParamIndex(text, i)] >= Len(args)
    IN [panic |-> bad,
        text |-> IF bad THEN <<>>
                 ELSE [i \in DOMAIN text |->
                         IF IsParam(text[i]) /\ orderMap[ParamIndex(text, i)] # -1
                         THEN args[orderMap[ParamIndex(text, i)] + 1]
                         ELSE text[i]]]

NoRequest == [oldStepValue |-> extractStepValueAndParams(<<>>),
              newStepValue |-> extractStepValueAndParams(<<>>),
              paramPositions |-> <<>>]

\* requestRunnerForRefactoring after the response: [files, err, failed].
requestRunnerForRefactoring(refactorResponse) ==
    [files |-> refactorResponse.filesChanged,
     failed |-> ~refactorResponse.success,
     err |-> IF ~refactorResponse.success THEN refactorResponse.error ELSE <<>>]

\* Mutant: the equal-phrase check is missing.
samePhrase_never(old, new) == FALSE

\* performRephraseRefactoring line 29: the phrases are the same.
samePhrase(old, new) == new = old

\* Mutant: the files of a failed response are kept in the result.
withRunnerOutcome_keepsFiles(res, r) ==
    IF r.failed
    THEN [res EXCEPT !.errors = Append(res.errors, OnlyDocsPrefix \o r.err),
                     !.runnerFilesChanged = r.files]
    ELSE [res EXCEPT !.success = TRUE, !.runnerFilesChanged = r.files]

\* Mutant: the runner's error is reported without the prefix.
withRunnerOutcome_noPrefix(res, r) ==
    IF r.failed
    THEN [res EXCEPT !.errors = Append(res.errors, r.err)]
    ELSE [res EXCEPT !.success = TRUE, !.runnerFilesChanged = r.files]

\* Mutant: success is set whatever the runner answered.
withRunnerOutcome_successAnyway(res, r) ==
    IF r.failed
    THEN [res EXCEPT !.errors = Append(res.errors, OnlyDocsPrefix \o r.err),
                     !.success = TRUE]
    ELSE [res EXCEPT !.success = TRUE, !.runnerFilesChanged = r.files]

\* performRefactoringOn lines 92-98: the result after the runner's answer.
withRunnerOutcome(res, r) ==
    IF r.failed
    THEN [res EXCEPT !.errors = Append(res.errors, OnlyDocsPrefix \o r.err)]
    ELSE [res EXCEPT !.success = TRUE, !.runnerFilesChanged = r.files]

\* Mutant: the kill is not deferred.
deferKill_forgotten(stack) == stack

\* performRefactoringOn line 85: defer runner.kill().
deferKill(stack) == Append(stack, "kill")

\* Mutant: no document is taken as flagged, so none is written.
isFlagged_never(flags, doc) == FALSE

\* Mutant: every document is taken as flagged, so all are written.
isFlagged_always(flags, doc) == TRUE

\* writeToConceptAndSpecFiles lines 252 and 260: the document is written.
isFlagged(flags, doc) == flags[doc]

\* ================================================================= state
VARIABLES
    pc,                     \* position in performRephraseRefactoring
    oldPhrase, newPhrase,   \* the arguments of performRephraseRefactoring
    agent,                  \* the rephraseRefactorer
    result,                 \* the pre-check result (line 43)
    refactoringResult,      \* the main result (line 78)
    returned,               \* what performRephraseRefactoring returned
    parsed,                 \* the documents and parse results as the parsers returned them
    specs,                  \* the specifications, mutated in memory
    conceptDictionary,      \* concept key -> concept, mutated in memory
    specsRefactored,        \* spec index -> changed flag
    conceptFilesRefactored, \* concept file name -> changed flag
    orderMap,               \* the order map of the rewrite pass (line 104)
    isConcept,              \* the local isConcept of line 108
    si, conceptsTodo,       \* progress of the rewrite loops
    wi, filesTodo,          \* progress of the write loops
    specFiles, conceptFiles,\* the lists writeToConceptAndSpecFiles builds
    runner,                 \* the runner connection: none / connected / killed
    deferred,               \* deferred calls of performRefactoringOn
    stepNameTrip,           \* the StepName round trip, once over
    stepName,               \* the canonical step name
    request,                \* the RefactorRequest built
    refactorTrip,           \* the Refactor round trip, once over
    refactorResponse,       \* the response requestRunnerForRefactoring reads
    calls                   \* log of the calls to the collaborators

inputVars == <<oldPhrase, newPhrase, parsed>>
resultVars == <<result, refactoringResult, returned>>
docVars == <<specs, conceptDictionary, specsRefactored, conceptFilesRefactored,
             orderMap, isConcept, si, conceptsTodo>>
writeVars == <<wi, filesTodo, specFiles, conceptFiles>>
runnerVars == <<runner, deferred, stepNameTrip, stepName, request, refactorTrip,
                refactorResponse>>
vars == <<pc, agent, calls, inputVars, resultVars, docVars, writeVars, runnerVars>>

NoFlags == [f \in {} |-> FALSE]
NoConcepts == [k \in {} |-> Concept("", <<>>)]
NoTrip == [ok |-> FALSE, err |-> <<>>, response |-> NoStepNameResponse]
NoRefactorTrip == [ok |-> FALSE, err |-> <<>>, response |-> NoRefactorResponse]

Call(op, arg) == [op |-> op, arg |-> arg]
Log(op, arg) == calls' = Append(calls, Call(op, arg))

Init ==
    /\ pc = "start"
    /\ oldPhrase \in OldPhrases
    /\ newPhrase \in NewPhrases
    /\ parsed = [specs |-> <<>>, concepts |-> NoConcepts, parseResults |-> <<>>]
    /\ agent = [oldStep |-> NoStep, newStep |-> NoStep, isConcept |-> FALSE]
    /\ result = NoResult
    /\ refactoringResult = NoResult
    /\ returned = NoResult
    /\ specs = <<>>
    /\ conceptDictionary = NoConcepts
    /\ specsRefactored = <<>>
    /\ conceptFilesRefactored = NoFlags
    /\ orderMap = <<>>
    /\ isConcept = FALSE
    /\ si = 1
    /\ conceptsTodo = {}
    /\ wi = 1
    /\ filesTodo = {}
    /\ specFiles = <<>>
    /\ conceptFiles = <<>>
    /\ runner = "none"
    /\ deferred = <<>>
    /\ stepNameTrip = NoTrip
    /\ stepName = <<>>
    /\ request = NoRequest
    /\ refactorTrip = NoRefactorTrip
    /\ refactorResponse = NoRefactorResponse
    /\ calls = <<>>

\* performRephraseRefactoring returns res.
Return(res) ==
    /\ returned' = res
    /\ pc' = "done"

\* ------------------------------------------------------------- pre-check
\* Lines 29-31.
CheckSamePhrase ==
    /\ pc = "start"
    /\ IF samePhrase(oldPhrase, newPhrase)
       THEN Return(rephraseFailure(<<SameNameMessage>>))
       ELSE pc' = "getRefactorAgent" /\ UNCHANGED returned
    /\ UNCHANGED <<agent, calls, inputVars, result, refactoringResult, docVars,
                   writeVars, runnerVars>>

\* Lines 32-36 and getRefactorAgent (140-156): the tokenizer may fail.
GetRefactorAgent ==
    /\ pc = "getRefactorAgent"
    /\ \E ok \in BOOLEAN :
         /\ Log("generateTokens", IF ok THEN "ok" ELSE "error")
         /\ IF ok
            THEN /\ agent' = [oldStep |-> createStepUsingLookup(oldPhrase),
                              newStep |-> createStepUsingLookup(newPhrase),
                              isConcept |-> FALSE]
                 /\ pc' = "getProjectRoot"
                 /\ UNCHANGED returned
            ELSE /\ Return(rephraseFailure(<<<<"invalid step">>>>))
                 /\ UNCHANGED agent
    /\ UNCHANGED <<inputVars, result, refactoringResult, docVars, writeVars,
                   runnerVars>>

\* Lines 38-41.
GetProjectRoot ==
    /\ pc = "getProjectRoot"
    /\ \E ok \in BOOLEAN :
         /\ Log("GetProjectRoot", IF ok THEN "ok" ELSE "error")
         /\ IF ok
            THEN pc' = "findSpecs" /\ UNCHANGED returned
            ELSE Return(rephraseFailure(<<<<"no project root">>>>))
    /\ UNCHANGED <<agent, inputVars, result, refactoringResult, docVars, writeVars,
                   runnerVars>>

SpecParseResults ==
    { <<ParseWarn("w1"), ParseOk>>,
      <<ParseFail("e1", "w2"), ParseOk>>,
      <<ParseWarn("w1"), ParseFail("e1", "w2"), ParseFail("e2", "w3")>> }

ConceptParseResults == {ParseWarn("w4"), ParseFail("e3", "w5")}

\* Lines 43-48.
FindSpecs ==
    /\ pc = "findSpecs"
    /\ \E corpus \in SpecCorpora(agent.oldStep), prs \in SpecParseResults :
         LET res == addErrorsAndWarningsToRefactoringResult(
                        [NoResult EXCEPT !.success = TRUE], prs)
         IN /\ result' = res
            /\ specs' = corpus
            /\ parsed' = [parsed EXCEPT !.specs = corpus, !.parseResults = prs]
            /\ Log("findSpecs",
                   IF \A i \in DOMAIN prs : prs[i].ok THEN "ok" ELSE "error")
            /\ IF ~res.success
               THEN Return(res)
               ELSE pc' = "createConceptsDictionary" /\ UNCHANGED returned
    /\ UNCHANGED <<agent, oldPhrase, newPhrase, refactoringResult,
                   conceptDictionary, specsRefactored, conceptFilesRefactored,
                   orderMap, isConcept, si, conceptsTodo, writeVars, runnerVars>>

\* Lines 49-54.
CreateConceptsDictionary ==
    /\ pc = "createConceptsDictionary"
    /\ \E corpus \in ConceptCorpora(agent.oldStep), pr \in ConceptParseResults :
         LET res == addErrorsAndWarningsToRefactoringResult(result, <<pr>>)
         IN /\ result' = res
            /\ conceptDictionary' = corpus
            /\ parsed' = [parsed EXCEPT !.concepts = corpus,
                                         !.parseResults = Append(@, pr)]
            /\ Log("createConceptsDictionary", IF pr.ok THEN "ok" ELSE "error")
            /\ IF ~res.success
               THEN Return(res)
               ELSE pc' = "rephrase" /\ UNCHANGED returned
    /\ UNCHANGED <<agent, oldPhrase, newPhrase, refactoringResult, specs,
                   specsRefactored, conceptFilesRefactored, orderMap, isConcept, si,
                   conceptsTodo, writeVars, runnerVars>>

\* ------------------------------------------------------ document rewrite
\* rephraseInSpecsAndConcepts lines 102-104.
BeginRephrase ==
    /\ pc = "rephrase"
    /\ orderMap' = createOrderOfArgs(agent.oldStep.args, agent.newStep.args)
    /\ specsRefactored' = <<>>
    /\ conceptFilesRefactored' = NoFlags
    /\ si' = 1
    /\ isConcept' = FALSE
    /\ conceptsTodo' = DOMAIN conceptDictionary
    /\ pc' = "renameSteps"
    /\ UNCHANGED <<agent, calls, inputVars, resultVars, specs, conceptDictionary,
                   writeVars, runnerVars>>

\* Lines 105-107: one specification.
RenameSpec ==
    /\ pc = "renameSteps"
    /\ si <= Len(specs)
    /\ LET r == renameSteps(specs[si], agent.oldStep, agent.newStep, orderMap)
       IN /\ specs' = [specs EXCEPT ![si] = r.spec]
          /\ specsRefactored' = Append(specsRefactored, r.renamed)
    /\ si' = si + 1
    /\ Log("renameSteps", specs[si].fileName)
    /\ UNCHANGED <<pc, agent, inputVars, resultVars, conceptDictionary,
                   conceptFilesRefactored, orderMap, isConcept, conceptsTodo,
                   writeVars, runnerVars>>

\* Lines 109-118: one concept of the map, in the map's iteration order.
RenameConcept ==
    /\ pc = "renameSteps"
    /\ si > Len(specs)
    /\ \E k \in conceptsTodo :
         LET concept == conceptDictionary[k]
             file == concept.fileName
             ok == file \in DOMAIN conceptFilesRefactored
             present == IF ok THEN conceptFilesRefactored[file] ELSE FALSE
             start == ((~ok) /\ FALSE) \/ present
             r == conceptItemsLoop(concept.conceptStep.items, 1, agent.oldStep,
                                   agent.newStep, orderMap, start, isConcept)
         IN /\ conceptDictionary' =
                  [conceptDictionary EXCEPT ![k].conceptStep.items = r.items]
            /\ conceptFilesRefactored' = (file :> r.flag) @@ conceptFilesRefactored
            /\ isConcept' = r.isConcept
            /\ conceptsTodo' = conceptsTodo \ {k}
            /\ Log("rename", file)
    /\ UNCHANGED <<pc, agent, inputVars, resultVars, specs, specsRefactored,
                   orderMap, si, writeVars, runnerVars>>

\* Lines 119-120, then writeToConceptAndSpecFiles lines 249-250.
EndRephrase ==
    /\ pc = "renameSteps"
    /\ si > Len(specs)
    /\ conceptsTodo = {}
    /\ agent' = [agent EXCEPT !.isConcept = isConcept]
    /\ specFiles' = <<>>
    /\ conceptFiles' = <<>>
    /\ wi' = 1
    /\ pc' = "writeSpecs"
    /\ UNCHANGED <<calls, inputVars, resultVars, docVars, filesTodo, runnerVars>>

\* ------------------------------------------------------------ persistence
\* Lines 251-257: one specification, written when flagged.
WriteSpec ==
    /\ pc = "writeSpecs"
    /\ wi <= Len(specs)
    /\ IF isFlagged(specsRefactored, wi)
       THEN /\ specFiles' = Append(specFiles, specs[wi].fileName)
            /\ Log("saveFile", specs[wi].fileName)
       ELSE UNCHANGED <<specFiles, calls>>
    /\ wi' = wi + 1
    /\ UNCHANGED <<pc, agent, inputVars, resultVars, docVars, filesTodo,
                   conceptFiles, runnerVars>>

\* formatConcepts: one formatted text per concept file.
formatConcepts(dict) == {dict[k].fileName : k \in DOMAIN dict}

\* Line 258.
FormatConcepts ==
    /\ pc = "writeSpecs"
    /\ wi > Len(specs)
    /\ filesTodo' = formatConcepts(conceptDictionary)
    /\ pc' = "writeConcepts"
    /\ UNCHANGED <<agent, calls, inputVars, resultVars, docVars, wi, specFiles,
                   conceptFiles, runnerVars>>

\* Lines 259-264: one concept file, in the map's iteration order.
WriteConcept ==
    /\ pc = "writeConcepts"
    /\ \E file \in filesTodo :
         /\ IF isFlagged(conceptFilesRefactored, file)
            THEN /\ conceptFiles' = Append(conceptFiles, file)
                 /\ Log("saveFile", file)
            ELSE UNCHANGED <<conceptFiles, calls>>
         /\ filesTodo' = filesTodo \ {file}
    /\ UNCHANGED <<pc, agent, inputVars, resultVars, docVars, wi, specFiles,
                   runnerVars>>

\* Line 265, then performRefactoringOn line 78.
NewRefactoringResult ==
    /\ pc = "writeConcepts"
    /\ filesTodo = {}
    /\ refactoringResult' = [NoResult EXCEPT !.specsChanged = specFiles,
                                             !.success = FALSE,
                                             !.conceptsChanged = conceptFiles]
    /\ pc' = "startRunner"
    /\ UNCHANGED <<agent, calls, inputVars, result, returned, docVars, writeVars,
                   runnerVars>>

\* ------------------------------------------------------ runner coordination
\* The deferred calls run when performRefactoringOn returns or panics.
killsOf(stack) == [i \in DOMAIN stack |-> Call(stack[i], "")]
runDeferred(stack, conn) == IF stack = <<>> THEN conn ELSE "killed"

\* performRefactoringOn returns res to line 56.
ReturnFromRefactoringOn(res, log) ==
    /\ refactoringResult' = res
    /\ runner' = runDeferred(deferred, runner)
    /\ calls' = log \o killsOf(deferred)
    /\ deferred' = <<>>
    /\ pc' = "appendWarnings"

\* An index out of range: the deferred calls run, nothing is returned.
Panic(log) ==
    /\ runner' = runDeferred(deferred, runner)
    /\ calls' = log \o killsOf(deferred)
    /\ deferred' = <<>>
    /\ pc' = "panicked"
    /\ UNCHANGED refactoringResult

\* Lines 80-85 and startRunner (172-180).
StartRunner ==
    /\ pc = "startRunner"
    /\ LET log == calls \o <<Call("startAPIService", ""), Call("startRunner", "")>>
       IN \E ok \in BOOLEAN :
            IF ok
            THEN /\ runner' = "connected"
                 /\ deferred' = deferKill(deferred)
                 /\ calls' = log
                 /\ pc' = "getStepName"
                 /\ UNCHANGED refactoringResult
            ELSE ReturnFromRefactoringOn(
                     [refactoringResult EXCEPT
                        !.errors = Append(@, ConnectPrefix \o <<"connection refused">>)],
                     log)
    /\ UNCHANGED <<agent, inputVars, result, returned, docVars, writeVars,
                   stepNameTrip, stepName, request, refactorTrip, refactorResponse>>

\* getStepNameFromRunner lines 222-223: the request goes out.
SendStepNameRequest ==
    /\ pc = "getStepName"
    /\ Log("send", "StepNameRequest")
    /\ pc' = "awaitStepName"
    /\ UNCHANGED <<agent, inputVars, resultVars, docVars, writeVars, runnerVars>>

\* Lines 223-234, then performRefactoringOn lines 86-90.
ReceiveStepNameResponse ==
    /\ pc = "awaitStepName"
    /\ \E trip \in {TransportFailed(NoStepNameResponse)}
                     \cup {Delivered(r) : r \in StepNameResponses(agent.oldStep)} :
         LET r == getStepNameFromRunner(agent.oldStep, trip)
         IN /\ stepNameTrip' = trip
            /\ IF r.panic
               THEN Panic(calls) /\ UNCHANGED stepName
               ELSE IF r.err # <<>>
               THEN /\ ReturnFromRefactoringOn(
                         [refactoringResult EXCEPT !.errors = Append(@, r.err)], calls)
                    /\ UNCHANGED stepName
               ELSE /\ stepName' = r.stepName
                    /\ pc' = "createRefactorRequest"
                    /\ UNCHANGED <<refactoringResult, runner, deferred, calls>>
    /\ UNCHANGED <<agent, inputVars, result, returned, docVars, writeVars, request,
                   refactorTrip, refactorResponse>>

\* createRefactorRequest after its two extractions succeeded: [panic, request].
createRefactorRequest(oldStep, newStep, name, keyOrder) ==
    LET oldStepValue == extractStepValueAndParams(name)
        map == createOrderOfArgs(oldStep.args, newStep.args)
        newStepName == generateNewStepName(newStep, oldStepValue.args, map)
    IN [panic |-> newStepName.panic,
        request |-> [oldStepValue |-> oldStepValue,
                     newStepValue |-> extractStepValueAndParams(newStepName.text),
                     paramPositions |-> createParameterPositions(map, keyOrder)]]

\* requestRunnerForRefactoring lines 159-162 with createRefactorRequest
\* (191-205): either extraction may fail.
CreateRefactorRequest ==
    /\ pc = "createRefactorRequest"
    /\ \E failure \in {"none", "old step value", "new step value"},
          keyOrder \in KeyOrders(createOrderOfArgs(agent.oldStep.args,
                                                   agent.newStep.args)) :
         LET r == createRefactorRequest(agent.oldStep, agent.newStep, stepName,
                                        keyOrder)
             err == <<"cannot extract ", failure>>
         IN IF failure = "old step value" \/ (failure # "none" /\ ~r.panic)
            THEN /\ ReturnFromRefactoringOn(
                      withRunnerOutcome(refactoringResult,
                                        [files |-> <<>>, failed |-> TRUE, err |-> err]),
                      calls)
                 /\ UNCHANGED request
            ELSE IF r.panic
            THEN Panic(calls) /\ UNCHANGED request
            ELSE /\ request' = r.request
                 /\ pc' = "sendRefactorRequest"
                 /\ UNCHANGED <<refactoringResult, runner, deferred, calls>>
    /\ UNCHANGED <<agent, inputVars, result, returned, docVars, writeVars,
                   stepNameTrip, stepName, refactorTrip, refactorResponse>>

\* sendRefactorRequest line 183: the request goes out.
SendRefactorRequest ==
    /\ pc = "sendRefactorRequest"
    /\ Log("send", "RefactorRequest")
    /\ pc' = "awaitRefactor"
    /\ UNCHANGED <<agent, inputVars, resultVars, docVars, writeVars, runnerVars>>

\* Lines 183-188, 163-170, then performRefactoringOn lines 92-98.
ReceiveRefactorResponse ==
    /\ pc = "awaitRefactor"
    /\ \E trip \in {TransportFailed(NoRefactorResponse)}
                     \cup {Delivered(r) : r \in RefactorResponses} :
         LET resp == sendRefactorRequest(trip)
         IN /\ refactorTrip' = trip
            /\ refactorResponse' = resp
            /\ ReturnFromRefactoringOn(
                   withRunnerOutcome(refactoringResult,
                                     requestRunnerForRefactoring(resp)),
                   calls)
    /\ UNCHANGED <<agent, inputVars, result, returned, docVars, writeVars,
                   stepNameTrip, stepName, request>>

\* performRephraseRefactoring lines 57-58.
AppendWarnings ==
    /\ pc = "appendWarnings"
    /\ Return([refactoringResult EXCEPT !.warnings = @ \o result.warnings])
    /\ UNCHANGED <<agent, calls, inputVars, result, refactoringResult, docVars,
                   writeVars, runnerVars>>

Next ==
    \/ CheckSamePhrase
    \/ GetRefactorAgent
    \/ GetProjectRoot
    \/ FindSpecs
    \/ CreateConceptsDictionary
    \/ BeginRephrase
    \/ RenameSpec
    \/ RenameConcept
    \/ EndRephrase
    \/ WriteSpec
    \/ FormatConcepts
    \/ WriteConcept
    \/ NewRefactoringResult
    \/ StartRunner
    \/ SendStepNameRequest
    \/ ReceiveStepNameResponse
    \/ CreateRefactorRequest
    \/ SendRefactorRequest
    \/ ReceiveRefactorResponse
    \/ AppendWarnings

Spec == Init /\ [][Next]_vars

\* ================================================================ claims
\* text contains part as a contiguous run of tokens.
Contains(text, part) ==
    \E k \in 0..(Len(text) - Len(part)) :
        \A i \in 1..Len(part) : text[k + i] = part[i]

HasPrefix(text, prefix) ==
    /\ Len(text) >= Len(prefix)
    /\ \A i \in 1..Len(prefix) : text[i] = prefix[i]

\* What the log and the state say about one invocation.
Count(op, arg) == Cardinality({i \in DOMAIN calls : calls[i] = Call(op, arg)})
Called(op) == \E i \in DOMAIN calls : calls[i].op = op
Saved == [i \in DOMAIN SelectSeq(calls, LAMBDA c : c.op = "saveFile") |->
             SelectSeq(calls, LAMBDA c : c.op = "saveFile")[i].arg]
Range(seq) == {seq[i] : i \in DOMAIN seq}
IsSpecFile(f) == \E i \in DOMAIN specs : specs[i].fileName = f
IsConceptFile(f) == \E k \in DOMAIN conceptDictionary : conceptDictionary[k].fileName = f

\* An occurrence of the old step in a document as it was parsed.
Matches(item) == item.kind = "step" /\ item.value = agent.oldStep.value
SpecMatched(i) ==
    \E n \in DOMAIN parsed.specs[i].items : Matches(parsed.specs[i].items[n])
ConceptFileMatched(f) ==
    \E k \in DOMAIN parsed.concepts :
        /\ parsed.concepts[k].fileName = f
        /\ \E n \in DOMAIN parsed.concepts[k].conceptStep.items :
               Matches(parsed.concepts[k].conceptStep.items[n])
MatchedSpecFiles == {parsed.specs[i].fileName : i \in {j \in DOMAIN parsed.specs : SpecMatched(j)}}
MatchedConceptFiles ==
    {f \in {parsed.concepts[k].fileName : k \in DOMAIN parsed.concepts} :
        ConceptFileMatched(f)}

PreCheckOps == {"generateTokens", "GetProjectRoot", "findSpecs",
                "createConceptsDictionary"}
RewriteOps == {"renameSteps", "rename"}
RunnerOps == {"startAPIService", "startRunner", "send", "kill"}
PreCheckFailed == \E i \in DOMAIN calls : calls[i].op \in PreCheckOps /\ calls[i].arg = "error"
RunnerStageEntered == Called("startRunner")
RunnerSucceeded == refactorTrip.ok /\ refactorTrip.response.success
RunnerFailed == pc = "done" /\ RunnerStageEntered /\ ~RunnerSucceeded
ConnectFailed ==
    \E i \in DOMAIN refactoringResult.errors :
        HasPrefix(refactoringResult.errors[i], ConnectPrefix)
StepNameTransportFailed == ~stepNameTrip.ok /\ stepNameTrip.err # <<>>
RefactorTransportFailed == ~refactorTrip.ok /\ refactorTrip.err # <<>>

\* C1: after every runner-layer failure the returned result has
\* success=false, lists as specsChanged and conceptsChanged exactly the
\* documents the document stage flagged and wrote (non-empty whenever a
\* document matched), and has no runnerFilesChanged, whatever the failed
\* response carried.
C1_RunnerFailureKeepsDocumentLists ==
    RunnerFailed =>
        /\ returned.success = FALSE
        /\ returned.specsChanged \o returned.conceptsChanged = Saved
        /\ \A i \in DOMAIN returned.specsChanged : IsSpecFile(returned.specsChanged[i])
        /\ \A i \in DOMAIN returned.conceptsChanged :
               IsConceptFile(returned.conceptsChanged[i])
        /\ Range(returned.specsChanged) =
               {specs[i].fileName : i \in {j \in DOMAIN specs : specsRefactored[j]}}
        /\ Range(returned.conceptsChanged) =
               {f \in DOMAIN conceptFilesRefactored : conceptFilesRefactored[f]}
        /\ MatchedSpecFiles # {} => returned.specsChanged # <<>>
        /\ MatchedConceptFiles # {} => returned.conceptsChanged # <<>>
        /\ returned.runnerFilesChanged = <<>>

\* C1 witness: the runner answered success=false with a filesChanged list
\* after documents were written.
C1_Witness ==
    /\ RunnerFailed
    /\ refactorTrip.ok
    /\ refactorTrip.response.filesChanged # <<>>
    /\ returned.specsChanged # <<>>
    /\ returned.conceptsChanged # <<>>

\* C2 as stated: after every runner-layer failure every error message says
\* that only spec files and concepts were refactored.
C2_EveryRunnerFailureSaysOnlyDocuments ==
    RunnerFailed =>
        /\ returned.errors # <<>>
        /\ \A i \in DOMAIN returned.errors :
               Contains(returned.errors[i], OnlyDocsPrefix)

\* C2 amended: a failure of request building, sending or the response
\* (steps 3 to 5) is reported as "Only spec files and concepts refactored: "
\* followed by the cause; a failure to connect or to resolve the step name
\* (steps 1 and 2) is reported by its own message, which does not say so.
C2_OnlyRequestFailuresSayOnlyDocuments ==
    RunnerFailed =>
        /\ Len(returned.errors) = 1
        /\ stepName # <<>> =>
              /\ HasPrefix(returned.errors[1], OnlyDocsPrefix)
              /\ Called("send") /\ Count("send", "RefactorRequest") = 1 =>
                    returned.errors[1] = OnlyDocsPrefix \o refactorResponse.error
        /\ stepName = <<>> =>
              /\ ~Contains(returned.errors[1], OnlyDocsPrefix)
              /\ \/ HasPrefix(returned.errors[1], ConnectPrefix)
                 \/ returned.errors[1] = getStepNameFromRunner(agent.oldStep, stepNameTrip).err

\* C2 witness: one invocation failed while building the request, after the
\* step name was resolved.
C2_Witness ==
    /\ RunnerFailed
    /\ stepName # <<>>
    /\ Count("send", "RefactorRequest") = 0
    /\ HasPrefix(returned.errors[1], OnlyDocsPrefix)

\* C3: a connection, once acquired, is released by exactly one runner.kill
\* before performRefactoringOn is left, on every path; a failed acquisition
\* performs no release and leaves no connection held.
Kills == Count("kill", "")
C3_ConnectionReleasedExactlyOnce ==
    /\ Kills <= 1
    /\ Kills = 1 <=> runner = "killed"
    /\ runner = "connected" =>
           pc \in {"getStepName", "awaitStepName", "createRefactorRequest",
                   "sendRefactorRequest", "awaitRefactor"}
    /\ (pc \in {"appendWarnings", "done", "panicked"} /\ RunnerStageEntered) =>
           IF ConnectFailed THEN runner = "none" /\ Kills = 0
           ELSE runner = "killed" /\ Kills = 1

\* C3 witness: an invocation returned after a step-name failure, with the
\* connection acquired and released.
C3_Witness ==
    /\ pc = "done"
    /\ Called("send")
    /\ stepName = <<>>
    /\ runner = "killed"
    /\ Kills = 1

\* C4: after a failed pre-check step nothing is rewritten or written, the
\* runner is neither started nor sent a request, and the result returned
\* has success=false, errors, and no changed files.
C4_PreCheckFailureShortCircuits ==
    PreCheckFailed =>
        /\ pc = "done"
        /\ returned.success = FALSE
        /\ returned.errors # <<>>
        /\ returned.specsChanged = <<>>
        /\ returned.conceptsChanged = <<>>
        /\ returned.runnerFilesChanged = <<>>
        /\ \A i \in DOMAIN calls : calls[i].op \in PreCheckOps
        /\ specs = parsed.specs
        /\ conceptDictionary = parsed.concepts
        /\ runner = "none"

\* C4 witness: concept parsing failed after specifications that use the old
\* step were parsed.
C4_Witness ==
    /\ pc = "done"
    /\ Count("createConceptsDictionary", "error") = 1
    /\ MatchedSpecFiles # {}
    /\ returned.warnings # <<>>

\* C5: with equal phrases the result is the single-error failure "Same old
\* step name and new step name." and no collaborator was called.
C5_SamePhraseFailsFirst ==
    oldPhrase = newPhrase =>
        /\ calls = <<>>
        /\ pc \in {"start", "done"}
        /\ pc = "done" =>
              /\ returned.success = FALSE
              /\ returned.errors = <<SameNameMessage>>
              /\ returned.specsChanged = <<>>
              /\ returned.conceptsChanged = <<>>
              /\ returned.runnerFilesChanged = <<>>
        /\ agent.oldStep = NoStep
        /\ runner = "none"

\* C5 witness: an invocation with equal phrases with arguments returned.
C5_Witness ==
    /\ pc = "done"
    /\ oldPhrase = newPhrase
    /\ Len(oldPhrase) > 1

\* The document stage has computed its order map.
DocStageStarted ==
    /\ Count("createConceptsDictionary", "ok") = 1
    /\ pc # "rephrase"

\* C6: the order map has exactly the keys 0..len(newArgs)-1; the value of
\* key i is the smallest old index whose argument equals new argument i,
\* and -1 exactly when there is none.
C6_OrderMapIsFirstMatch ==
    DocStageStarted =>
        LET old == agent.oldStep.args
            new == agent.newStep.args
        IN /\ DOMAIN orderMap = 0..(Len(new) - 1)
           /\ \A i \in DOMAIN orderMap :
                 LET same == {j \in 0..(Len(old) - 1) : old[j + 1] = new[i + 1]}
                 IN /\ orderMap[i] = -1 \/ orderMap[i] \in 0..(Len(old) - 1)
                    /\ orderMap[i] = -1 <=> same = {}
                    /\ same # {} =>
                          /\ orderMap[i] \in same
                          /\ \A j \in same : orderMap[i] <= j

\* C6 witness: the old step repeats an argument the new step uses, and the
\* new step has an argument the old step lacks.
C6_Witness ==
    /\ DocStageStarted
    /\ Len(agent.oldStep.args) = 2
    /\ agent.oldStep.args[1] = agent.oldStep.args[2]
    /\ \E i, j \in DOMAIN orderMap : orderMap[i] = 0 /\ orderMap[j] = -1

\* A RefactorRequest has been built.
RequestBuilt == pc = "sendRefactorRequest" \/ Count("send", "RefactorRequest") >= 1

\* C7: the paramPositions of the request hold one entry per new position,
\* sentinel entries included, and each entry is the pair of the order map
\* the rewrite pass applied.
C7_ParamPositionsAreTheOrderMap ==
    RequestBuilt =>
        LET pp == request.paramPositions
        IN /\ Len(pp) = Cardinality(DOMAIN orderMap)
           /\ \A k \in DOMAIN orderMap :
                 Cardinality({n \in DOMAIN pp : pp[n].newPosition = k}) = 1
           /\ \A n \in DOMAIN pp :
                 /\ pp[n].newPosition \in DOMAIN orderMap
                 /\ pp[n].oldPosition = orderMap[pp[n].newPosition]

\* C7 witness: a request with a sentinel and a mapped position was built
\* after documents were rewritten and written.
C7_Witness ==
    /\ RequestBuilt
    /\ Saved # <<>>
    /\ \E n, m \in DOMAIN request.paramPositions :
          /\ request.paramPositions[n].oldPosition = -1
          /\ request.paramPositions[m].oldPosition # -1

\* The calls to the runner, in order.
RunnerCalls == SelectSeq(calls, LAMBDA c : c.op \in RunnerOps)
StartApi == Call("startAPIService", "")
Start == Call("startRunner", "")
SendStepName == Call("send", "StepNameRequest")
SendRefactor == Call("send", "RefactorRequest")
Kill == Call("kill", "")

\* C8: the coordination runs connect, StepName, Refactor at most once each
\* and in this order; the Refactor request follows a StepName response
\* that reports the step present and without alias; after a failure the
\* invocation only returns.
C8_RunnerStagesOnceInOrder ==
    /\ RunnerCalls \in { <<>>,
                         <<StartApi, Start>>,
                         <<StartApi, Start, Kill>>,
                         <<StartApi, Start, SendStepName>>,
                         <<StartApi, Start, SendStepName, Kill>>,
                         <<StartApi, Start, SendStepName, SendRefactor>>,
                         <<StartApi, Start, SendStepName, SendRefactor, Kill>> }
    /\ Count("send", "RefactorRequest") = 1 =>
           /\ stepNameTrip.ok
           /\ stepNameTrip.response.isStepPresent
           /\ ~stepNameTrip.response.hasAlias
    /\ Count("send", "StepNameRequest") = 1 => ~ConnectFailed
    /\ refactoringResult.errors # <<>> => pc \in {"appendWarnings", "done"}
    /\ (Called("kill") \/ ConnectFailed) => pc \in {"appendWarnings", "done", "panicked"}

\* C8 witness: the StepName response reported an alias and the invocation
\* returned.
C8_Witness ==
    /\ pc = "done"
    /\ stepNameTrip.ok
    /\ stepNameTrip.response.hasAlias
    /\ RunnerCalls = <<StartApi, Start, SendStepName, Kill>>

\* The stage of a call: pre-check, rewrite, persistence, runner.
Stage(c) ==
    IF c.op \in PreCheckOps THEN 1
    ELSE IF c.op \in RewriteOps THEN 2
    ELSE IF c.op = "saveFile" THEN 3
    ELSE 4

\* C9: calls never go back to an earlier stage; a file is written only
\* after every specification and concept was visited by the rewrite pass;
\* the runner is started or sent a request only after every flagged
\* document was written.
C9_StagesInOrder ==
    /\ \A a, b \in DOMAIN calls : a < b => Stage(calls[a]) <= Stage(calls[b])
    /\ Called("saveFile") =>
           /\ \A i \in DOMAIN specs : Count("renameSteps", specs[i].fileName) = 1
           /\ Cardinality({i \in DOMAIN calls : calls[i].op = "rename"})
                 = Cardinality(DOMAIN conceptDictionary)
           /\ si > Len(specs)
           /\ conceptsTodo = {}
    /\ (\E i \in DOMAIN calls : calls[i].op \in RunnerOps) =>
           /\ \A i \in DOMAIN specs :
                 specsRefactored[i] => Count("saveFile", specs[i].fileName) = 1
           /\ \A f \in DOMAIN conceptFilesRefactored :
                 conceptFilesRefactored[f] => Count("saveFile", f) = 1

\* C9 witness: the runner was sent a request after a specification and a
\* concept file were rewritten and written.
C9_Witness ==
    /\ Called("send")
    /\ \E i \in DOMAIN specs : specsRefactored[i]
    /\ \E f \in DOMAIN conceptFilesRefactored : conceptFilesRefactored[f]
    /\ Len(Saved) >= 2

\* C10: a transport failure of either round trip ends in a returned result
\* with success=false and the transport message in its errors; for the
\* Refactor request it first becomes a response with success=false and
\* that message as error, reported like a runner rejection.
C10_TransportFailureIsAFailureResult ==
    /\ (StepNameTransportFailed \/ RefactorTransportFailed) =>
           pc \in {"appendWarnings", "done"}
    /\ RefactorTransportFailed =>
           /\ refactorResponse.success = FALSE
           /\ refactorResponse.error = refactorTrip.err
    /\ (pc = "done" /\ StepNameTransportFailed) =>
           /\ returned.success = FALSE
           /\ \E i \in DOMAIN returned.errors :
                 Contains(returned.errors[i], stepNameTrip.err)
    /\ (pc = "done" /\ RefactorTransportFailed) =>
           /\ returned.success = FALSE
           /\ \E i \in DOMAIN returned.errors :
                 /\ Contains(returned.errors[i], refactorTrip.err)
                 /\ HasPrefix(returned.errors[i], OnlyDocsPrefix)

\* C10 witness: the Refactor request timed out after documents were
\* written, and the invocation returned.
C10_Witness ==
    /\ pc = "done"
    /\ RefactorTransportFailed
    /\ Saved # <<>>

\* The result objects that exist: the pre-check result from line 43 on,
\* the main result from line 78 on.
PreResultExists == Called("findSpecs")
MainResultExists ==
    \/ pc \in {"startRunner", "getStepName", "awaitStepName", "createRefactorRequest",
               "sendRefactorRequest", "awaitRefactor", "appendWarnings"}
    \/ pc \in {"done", "panicked"} /\ RunnerStageEntered

\* C11 as stated: in neither result object does success go from false to
\* true.
C11_SuccessFalseIsSticky ==
    [][/\ (PreResultExists /\ ~result.success) => ~result'.success
       /\ (MainResultExists /\ ~refactoringResult.success) =>
              ~refactoringResult'.success]_vars

\* C11 amended: the pre-check result's success is false as soon as one
\* parse result failed and stays false; the main result is created with
\* success=false and set to true only once, by the successful Refactor
\* response, never with an error recorded in it, and stays true.
C11_FailureIsNeverOverridden ==
    [][/\ PreResultExists' => (result'.success <=> ~PreCheckFailed')
       /\ (PreResultExists /\ ~result.success) => ~result'.success
       /\ (MainResultExists' /\ refactoringResult'.errors # <<>>) =>
              ~refactoringResult'.success
       /\ (MainResultExists /\ ~refactoringResult.success
             /\ refactoringResult'.success) =>
              /\ pc = "awaitRefactor"
              /\ RunnerSucceeded'
       /\ (MainResultExists /\ refactoringResult.success) =>
              refactoringResult'.success]_vars

\* C11 witness: the main result, created with success=false, was returned
\* with success=true.
C11_Witness ==
    /\ pc = "done"
    /\ RunnerSucceeded
    /\ returned.success
    /\ returned.errors = <<>>

\* The rewrite pass is over: agent.isConcept is assigned (line 119).
RephraseDone == DocStageStarted /\ pc # "renameSteps"
ConceptFileNames == {parsed.concepts[k].fileName : k \in DOMAIN parsed.concepts}
\* The file defines a concept whose own header is the old step.
HeaderMatched(f) ==
    \E k \in DOMAIN parsed.concepts :
        /\ parsed.concepts[k].fileName = f
        /\ \E n \in DOMAIN parsed.concepts[k].conceptStep.items :
               /\ Matches(parsed.concepts[k].conceptStep.items[n])
               /\ parsed.concepts[k].conceptStep.items[n].isConcept
\* The file uses the old step, and no concept of it has it as header.
OnlyBodyUse(f) == ConceptFileMatched(f) /\ ~HeaderMatched(f)

\* C12 as stated: a concept file whose header matches is flagged and the
\* side flag is set; a concept file that only uses the step in a body is
\* flagged and the side flag is unset, whatever else was processed.
C12_SideFlagPerDocument ==
    RephraseDone =>
        \A f \in ConceptFileNames :
            /\ HeaderMatched(f) => conceptFilesRefactored[f] /\ agent.isConcept
            /\ OnlyBodyUse(f) => conceptFilesRefactored[f] /\ ~agent.isConcept

\* C12 amended: every concept file whose header or body matches is
\* flagged; the side flag is one flag per invocation, set exactly when the
\* header of some concept processed in it matched.
C12_SideFlagPerInvocation ==
    RephraseDone =>
        /\ \A f \in ConceptFileNames :
              (HeaderMatched(f) \/ OnlyBodyUse(f)) => conceptFilesRefactored[f]
        /\ agent.isConcept <=> \E f \in ConceptFileNames : HeaderMatched(f)

\* C12 witness: one concept file has the old step as header, another only
\* uses it, and the rewrite pass is over.
C12_Witness ==
    /\ RephraseDone
    /\ \E f, g \in ConceptFileNames : HeaderMatched(f) /\ OnlyBodyUse(g)
    /\ agent.isConcept

\* C13: a specification file is listed in specsChanged, and written, if
\* and only if one of its step occurrences was renamed; a specification
\* without an occurrence of the old step is neither; the same holds for
\* concept files and conceptsChanged. No file is listed or written twice.
C13_ChangedIffRenamed ==
    MainResultExists =>
        LET listedSpecs == refactoringResult.specsChanged
            listedConcepts == refactoringResult.conceptsChanged
        IN /\ \A i \in DOMAIN specs :
                 LET f == specs[i].fileName
                 IN /\ f \in Range(listedSpecs) <=> SpecMatched(i)
                    /\ Count("saveFile", f) = (IF SpecMatched(i) THEN 1 ELSE 0)
                    /\ SpecMatched(i) <=> specs[i] # parsed.specs[i]
           /\ \A f \in ConceptFileNames :
                 /\ f \in Range(listedConcepts) <=> ConceptFileMatched(f)
                 /\ Count("saveFile", f) = (IF ConceptFileMatched(f) THEN 1 ELSE 0)
                 /\ ConceptFileMatched(f) <=>
                       \E k \in DOMAIN conceptDictionary :
                           /\ conceptDictionary[k].fileName = f
                           /\ conceptDictionary[k] # parsed.concepts[k]
           /\ Len(listedSpecs) = Cardinality(Range(listedSpecs))
           /\ Len(listedConcepts) = Cardinality(Range(listedConcepts))
           /\ Range(listedSpecs) \subseteq {specs[i].fileName : i \in DOMAIN specs}
           /\ Range(listedConcepts) \subseteq ConceptFileNames
           /\ pc = "done" =>
                 /\ returned.specsChanged = listedSpecs
                 /\ returned.conceptsChanged = listedConcepts

\* C13 witness: of two specifications and of two concept files one uses
\* the old step and one does not, and the result was returned.
C13_Witness ==
    /\ pc = "done"
    /\ MainResultExists
    /\ \E i, j \in DOMAIN specs : SpecMatched(i) /\ ~SpecMatched(j)
    /\ \E f, g \in ConceptFileNames : ConceptFileMatched(f) /\ ~ConceptFileMatched(g)

\* The warnings of the parse results handed back by findSpecs and
\* createConceptsDictionary, in the order they were handed back.
RECURSIVE WarningsOf(_)
WarningsOf(parseResults) ==
    IF parseResults = <<>> THEN <<>>
    ELSE Head(parseResults).warnings \o WarningsOf(Tail(parseResults))
CollectedWarnings == WarningsOf(parsed.parseResults)

\* C14: the warnings of the returned result are exactly the warnings of
\* the specification and concept parse results, unchanged and in the order
\* they were collected, whether the pre-check failed, the runner stage
\* failed or the runner succeeded; no other warning is added.
C14_WarningsAreThePreCheckWarnings ==
    pc = "done" => returned.warnings = CollectedWarnings

\* C14 witness: both specification and concept parsing gave a warning and
\* the runner stage then failed.
C14_Witness ==
    /\ pc = "done"
    /\ RunnerFailed
    /\ Len(CollectedWarnings) = 2
    /\ returned.warnings = CollectedWarnings

\* C15: in the request, the k-th parameter of the new step value is the
\* argument at index orderMap[k] of the arguments handed to
\* generateNewStepName (those of the canonical step name), and it is the
\* new step's own placeholder where orderMap[k] is the sentinel -1; the
\* words of the new signature are kept.
C15_NewStepNameFollowsOrderMap ==
    RequestBuilt =>
        LET args == SelectSeq(stepName, IsParam)
            new == request.newStepValue
        IN /\ new.stepValue = agent.newStep.value
           /\ Len(new.args) = Len(agent.newStep.args)
           /\ request.oldStepValue.args = args
           /\ \A k \in DOMAIN orderMap :
                 /\ orderMap[k] = -1 => new.args[k + 1] = agent.newStep.args[k + 1]
                 /\ orderMap[k] # -1 =>
                       /\ orderMap[k] + 1 \in DOMAIN args
                       /\ new.args[k + 1] = args[orderMap[k] + 1]

\* C15 witness: the order map is {0:1, 1:0} and the request carries old
\* argument 1 at new position 0 and old argument 0 at new position 1.
C15_Witness ==
    /\ RequestBuilt
    /\ DOMAIN orderMap = 0..1
    /\ orderMap[0] = 1
    /\ orderMap[1] = 0
    /\ request.oldStepValue.args = <<ImplParams[1], ImplParams[2]>>
    /\ request.newStepValue.args = <<ImplParams[2], ImplParams[1]>>

\* The StepName response arrived and reports the step present and aliased.
AliasedResponse ==
    /\ stepNameTrip.ok
    /\ stepNameTrip.response.isStepPresent
    /\ stepNameTrip.response.hasAlias

\* C16: after a StepName response that reports the step present and
\* aliased, the invocation fails with one error that starts with the alias
\* message, names every alias of the response in order with "', '" between
\* neighbours, and no Refactor request is sent.
C16_AliasedStepIsRefused ==
    AliasedResponse =>
        LET names == stepNameTrip.response.stepName
            res == IF pc = "done" THEN returned ELSE refactoringResult
        IN /\ pc \in {"appendWarnings", "done"}
           /\ ~res.success
           /\ Len(res.errors) = 1
           /\ HasPrefix(res.errors[1], AliasPrefix \o names[1])
           /\ \A i \in 1..(Len(names) - 1) :
                 Contains(res.errors[1], names[i] \o <<"', '">> \o names[i + 1])
           /\ Len(res.errors[1]) =
                 Len(AliasPrefix) + Len(AliasSuffix) + 2 * Len(names) - 1
           /\ Count("send", "RefactorRequest") = 0
           /\ request = NoRequest

\* C16 witness: the runner answered with the aliases stepA and stepB and
\* the returned message holds stepA', 'stepB.
C16_Witness ==
    /\ pc = "done"
    /\ AliasedResponse
    /\ stepNameTrip.response.stepName = <<<<"stepA">>, <<"stepB">>>>
    /\ Contains(returned.errors[1], <<"stepA", "', '", "stepB">>)

\* C17: every returned result has success=true exactly when its errors
\* list is empty; after a runner-layer failure the list holds exactly one
\* error; runnerFilesChanged is non-empty only in a successful result.
C17_SuccessIffNoErrors ==
    pc = "done" =>
        /\ returned.success <=> returned.errors = <<>>
        /\ RunnerFailed => Len(returned.errors) = 1
        /\ returned.runnerFilesChanged # <<>> => returned.success
        /\ returned.success <=> RunnerSucceeded

\* C17 witness: the runner refused the refactoring in a response that
\* names a changed file; the returned result has one error and no runner
\* files.
C17_Witness ==
    /\ RunnerFailed
    /\ refactorTrip.ok
    /\ refactorTrip.response.filesChanged # <<>>
    /\ Len(returned.errors) = 1
    /\ returned.runnerFilesChanged = <<>>

\* The three outcomes of step-name resolution for a delivered response.
ResolvedNotFound ==
    /\ ~stepNameTrip.response.isStepPresent
    /\ pc \in {"appendWarnings", "done"}
    /\ refactoringResult.errors = <<NotFoundPrefix \o agent.oldStep.lineText>>
ResolvedAliased ==
    /\ stepNameTrip.response.isStepPresent
    /\ stepNameTrip.response.hasAlias
    /\ pc \in {"appendWarnings", "done"}
    /\ Len(refactoringResult.errors) = 1
    /\ HasPrefix(refactoringResult.errors[1], AliasPrefix)
ResolvedCanonical ==
    /\ stepNameTrip.response.isStepPresent
    /\ ~stepNameTrip.response.hasAlias
    /\ stepNameTrip.response.stepName # <<>>
    /\ stepName = stepNameTrip.response.stepName[1]

\* C18: every delivered StepName response ends step-name resolution in
\* exactly one of: the "not found" error, the aliased-step error, the first
\* canonical name of the response; a response that reports the step
\* present, without alias and with no name at all is one of these as well.
C18_EveryResponseResolves ==
    stepNameTrip.ok =>
        /\ ResolvedNotFound \/ ResolvedAliased \/ ResolvedCanonical
        /\ ~(ResolvedNotFound /\ ResolvedAliased)
        /\ ~(ResolvedNotFound /\ ResolvedCanonical)
        /\ ~(ResolvedAliased /\ ResolvedCanonical)

\* The response that is present, not aliased and carries no name: the
\* invocation stops at line 233 with an index out of range; nothing is
\* returned, the deferred kill has run.
C18_EmptyNameListFaults ==
    /\ stepNameTrip.ok
    /\ stepNameTrip.response = StepNameResponse(TRUE, FALSE, <<>>)
    /\ pc = "panicked"
    /\ returned = NoResult
    /\ Count("kill", "") = 1

\* Every other delivered response resolves in exactly one of the three ways.
C18_OtherResponsesResolve ==
    (stepNameTrip.ok /\ stepNameTrip.response # StepNameResponse(TRUE, FALSE, <<>>))
        => /\ ResolvedNotFound \/ ResolvedAliased \/ ResolvedCanonical
           /\ ~(ResolvedNotFound /\ ResolvedAliased)
           /\ ~(ResolvedNotFound /\ ResolvedCanonical)
           /\ ~(ResolvedAliased /\ ResolvedCanonical)

\* The arguments generateNewStepName indexes: those of the canonical name.
CanonicalArgs == SelectSeq(stepName, IsParam)
\* generateNewStepName has been applied to the resolved canonical name.
NewStepNameGenerated ==
    /\ stepNameTrip.ok
    /\ ResolvedCanonical
    /\ RequestBuilt \/ pc = "panicked"

\* C19: whenever generateNewStepName has been applied, every order-map
\* value other than the sentinel is a valid index into the arguments of
\* the canonical step name the runner returned.
C19_OrderMapIndexesAreValid ==
    NewStepNameGenerated =>
        \A k \in DOMAIN orderMap :
            orderMap[k] # -1 => orderMap[k] \in 0..(Len(CanonicalArgs) - 1)

\* The canonical name has fewer parameters than the old phrase and the
\* new phrase uses the last old argument: the invocation stops at line 213
\* with an index out of range; nothing is returned, the deferred kill ran.
C19_ShortCanonicalNameFaults ==
    /\ NewStepNameGenerated
    /\ pc = "panicked"
    /\ Len(CanonicalArgs) < Len(agent.oldStep.args)
    /\ \E k \in DOMAIN orderMap : orderMap[k] >= Len(CanonicalArgs)
    /\ returned = NoResult
    /\ Count("kill", "") = 1
    /\ Count("send", "RefactorRequest") = 0

\* With a canonical name of as many parameters as the old phrase the
\* indexes are valid and the request is built.
C19_SameArityIsSafe ==
    (NewStepNameGenerated /\ Len(CanonicalArgs) = Len(agent.oldStep.args))
        => /\ pc # "panicked"
           /\ \A k \in DOMAIN orderMap :
                 orderMap[k] # -1 => orderMap[k] \in 0..(Len(CanonicalArgs) - 1)

\* The concepts the pass has gone through, and those of one file.
ConceptsPassed ==
    IF pc = "renameSteps" THEN DOMAIN parsed.concepts \ conceptsTodo
    ELSE DOMAIN parsed.concepts
ConceptsPassedOf(f) == {k \in ConceptsPassed : parsed.concepts[k].fileName = f}
\* A step item as the pass must leave it.
Renamed(item) ==
    IF Matches(item)
    THEN [item EXCEPT !.value = agent.newStep.value,
                      !.args = getArgsInOrder(item, agent.newStep, orderMap)]
    ELSE item

\* C20: at every point of the concept pass and after it, a file has a
\* flag exactly when one of its concepts was gone through, and the flag is
\* the OR, over every step item of every such concept, of "the item was
\* the old step"; every such item is rewritten, also when the file was
\* already flagged; items that are not steps neither set the flag nor
\* change; the flag of a file never goes back to false; the concepts may
\* be gone through in any order, the flags at the end are the same.
C20_ConceptFlagIsOrOverStepItems ==
    DocStageStarted =>
        /\ DOMAIN conceptFilesRefactored =
              {parsed.concepts[k].fileName : k \in ConceptsPassed}
        /\ \A f \in DOMAIN conceptFilesRefactored :
              conceptFilesRefactored[f] <=>
                  \E k \in ConceptsPassedOf(f) :
                      \E n \in DOMAIN parsed.concepts[k].conceptStep.items :
                          Matches(parsed.concepts[k].conceptStep.items[n])
        /\ \A k \in DOMAIN parsed.concepts :
              LET before == parsed.concepts[k].conceptStep.items
                  after == conceptDictionary[k].conceptStep.items
              IN /\ Len(after) = Len(before)
                 /\ \A n \in DOMAIN before :
                       after[n] = IF k \in ConceptsPassed THEN Renamed(before[n])
                                  ELSE before[n]

\* C20 witness: the pass is over; the file of a concept that uses the old
\* step twice is flagged and both uses are rewritten, the file of a concept
\* that only quotes the old step in a comment is not flagged.
C20_Witness ==
    /\ RephraseDone
    /\ \E f, g \in DOMAIN conceptFilesRefactored :
          /\ conceptFilesRefactored[f]
          /\ \E k \in ConceptsPassedOf(f) :
                LET before == parsed.concepts[k].conceptStep.items
                    after == conceptDictionary[k].conceptStep.items
                    uses == {n \in DOMAIN before : Matches(before[n])}
                IN /\ Cardinality(uses) = 2
                   /\ \A n \in uses : after[n] # before[n]
          /\ ~conceptFilesRefactored[g]
          /\ \E k \in ConceptsPassedOf(g) :
                Quote(agent.oldStep) \in Range(parsed.concepts[k].conceptStep.items)

\* A flag that is true stays true for the rest of the invocation.
ConceptFlagIsNeverReset ==
    [][\A f \in DOMAIN conceptFilesRefactored :
          conceptFilesRefactored[f] =>
              f \in DOMAIN conceptFilesRefactored' /\ conceptFilesRefactored'[f]]_vars

====
